---- MODULE Spec2Model ----
(***************************************************************************)
(* Model of the AnkiCatalunya deck builder: run.py (the pipeline that      *)
(* collects one ComarcaData per comarca, validates the list and packages   *)
(* it) and src/WikiApi.py (the alternate media client).                    *)
(*                                                                         *)
(* Text is modelled as a sequence of tokens, so that replace, split,       *)
(* endswith, "in" and join are computed as Python computes them.  An       *)
(* Optional[str] is <<>> for None and <<s>> for the string s.  A call      *)
(* returns [exc |-> name of the exception raised or "none", val |-> ...].  *)
(***************************************************************************)
EXTENDS Integers, Sequences, FiniteSets, TLC

VARIABLES
    pc,         \* position of the process
    comarques,  \* main: category titles returned by get_comarques_categories
    i,          \* main: number of comarques already processed by the for loop
    data,       \* main: the list of ComarcaData
    call,       \* get_comarca_data: its locals while a call is active
    files,      \* the file system under imgs/: path -> "absent" | "partial" | "complete"
    log,        \* main: the reports validate_data emitted through logging
    valid,      \* main: result of validate_data ("unset" before it ran)
    out,        \* main: model, notes, imgs, pkg and the file comarques.apkg
    executed,   \* the operations of main's tail that have been entered
    exc,        \* the uncaught exception that ended the process ("none")
    exit_code,  \* process exit status (None while it runs)
    op          \* the last operation called directly: its inputs and its result

vars == <<pc, comarques, i, data, call, files, log, valid, out, executed,
          exc, exit_code, op>>

----------------------------------------------------------------------------
\* Bounds of the model.
MaxComarques == 2
MaxImages == 2

None == <<>>
Some(s) == <<s>>
\* Python truthiness of an Optional[str]: None and "" are falsy.
Falsy(o) == o = None \/ o[1] = <<>>

----------------------------------------------------------------------------
\* Text helpers.

\* s.replace(a, b) for one-token a and b.
Replace(s, a, b) == [n \in 1..Len(s) |-> IF s[n] = a THEN b ELSE s[n]]

\* s.split(":")[-1]: the tokens after the last ":".
SplitLast(s) ==
    LET cut == {n \in 1..Len(s) : s[n] = ":"}
        last == IF cut = {} THEN 0 ELSE CHOOSE n \in cut : \A m \in cut : m <= n
    IN  SubSeq(s, last + 1, Len(s))

\* sep.join(list)
RECURSIVE Join(_, _)
Join(list, sep) ==
    IF list = <<>> THEN <<>>
    ELSE IF Len(list) = 1 THEN list[1]
    ELSE list[1] \o <<sep>> \o Join(Tail(list), sep)

EndsWith(s, suffix) == Len(s) > 0 /\ s[Len(s)] = suffix
Contains(s, tok) == \E n \in 1..Len(s) : s[n] = tok

\* Path(p).name: what follows the last directory token.
PathName(p) ==
    LET dirs == {n \in 1..Len(p) : p[n] = "imgs/"}
        last == IF dirs = {} THEN 0 ELSE CHOOSE n \in dirs : \A m \in dirs : m <= n
    IN  SubSeq(p, last + 1, Len(p))

----------------------------------------------------------------------------
\* Inputs from the encyclopedia and the media repository.

RECURSIVE Pick(_, _)
\* The sub-list of list at the indices of idx, in order.
Pick(list, idx) ==
    IF idx = {} THEN <<>>
    ELSE LET m == CHOOSE n \in idx : \A k \in idx : n <= k
         IN  <<list[m]>> \o Pick(list, idx \ {m})

SubLists(list, max) ==
    { Pick(list, idx) : idx \in { x \in SUBSET (1..Len(list)) : Cardinality(x) <= max } }

\* The members of the category, in the order the service lists them;
\* categorymembers is a dict keyed by title, so the titles are pairwise distinct.
CategoryMembers ==
    << <<"Categoria", ":", "Alt", " ", "Camp">>,
       <<"Categoria", ":", "Bages">>,
       <<"Categoria", ":", "Alt", "_", "Camp">> >>
CategoryTitles == { CategoryMembers[n] : n \in 1..Len(CategoryMembers) }
CategoryLists == SubLists(CategoryMembers, MaxComarques)

\* The image titles a page can list, in the order the API returns them.
PageImages ==
    << <<"Fitxer:", "Localitzacio", "a Catalunya.svg">>,
       <<"Fitxer:", "Coat", "of arms", ".svg">>,
       <<"Fitxer:", "Coat", ".png">>,
       <<"Fitxer:", "Mapa", "a Catalunya.svg">> >>

ImageLists == SubLists(PageImages, MaxImages)

\* Responses of action=query&prop=images: a network failure, or a page entry
\* with or without the images key.
TitleResponses ==
    { [status |-> "error", has_images |-> FALSE, images |-> <<>>],
      [status |-> "ok", has_images |-> FALSE, images |-> <<>>] }
    \cup { [status |-> "ok", has_images |-> TRUE, images |-> l] : l \in ImageLists }

\* Responses of action=query&prop=imageinfo: a network failure, or a page entry
\* with or without imageinfo.
InfoResponses == { [status |-> "error"], [status |-> "ok", imageinfo |-> FALSE],
                   [status |-> "ok", imageinfo |-> TRUE] }

\* The url the media repository registers for a (normalised) title.
UrlOf(title) == <<"https://upload.wikimedia.org/">> \o title

\* Rendered pages seen by the scraper.
Pages == { [status |-> "error", row |-> FALSE, link |-> FALSE, text |-> <<>>],
           [status |-> "ok", row |-> FALSE, link |-> FALSE, text |-> <<>>],
           [status |-> "ok", row |-> TRUE, link |-> FALSE, text |-> <<>>],
           [status |-> "ok", row |-> TRUE, link |-> TRUE, text |-> <<>>],
           [status |-> "ok", row |-> TRUE, link |-> TRUE, text |-> <<"Manresa">>] }

\* Outcomes of one download: the request fails, the status is not a success,
\* open() fails, write() fails after open() created the file, or all succeed.
DownloadOutcomes == {"ConnectionError", "HTTPError", "OpenError", "WriteError", "ok"}

----------------------------------------------------------------------------
\* run.py, pure parts.

Ret(v) == [exc |-> "none", val |-> v, log |-> <<>>]
RetLog(v, record) == [exc |-> "none", val |-> v, log |-> <<record>>]
Raise(e) == [exc |-> e, val |-> None, log |-> <<>>]
Warning(msg) == [level |-> "WARNING", msg |-> msg]
Error(msg) == [level |-> "ERROR", msg |-> msg]

\* run.py get_image_titles
get_image_titles(page_title, response) ==
    IF response.status = "error" THEN Raise("ConnectionError")
    ELSE IF ~response.has_images THEN Raise("KeyError")
    ELSE Ret(SelectSeq(response.images, LAMBDA t : EndsWith(t, ".svg") \/ EndsWith(t, "a Catalunya.svg")))

\* The titles value both clients send.
QueryTitle(image_title) == Replace(image_title, "Fitxer:", "File:")

\* run.py get_image_info
get_image_info(image_title, response) ==
    IF response.status = "error" THEN Raise("ConnectionError")
    ELSE IF response.imageinfo THEN Ret(Some(UrlOf(QueryTitle(image_title))))
    ELSE RetLog(None, Warning(<<"No image info found for ">> \o image_title))

\* run.py get_comarca_capital_from_html
get_comarca_capital_from_html(page) ==
    IF page.status = "error" THEN Raise("ConnectionError")
    ELSE IF page.row
         THEN IF page.link THEN Ret(Some(page.text))
              ELSE Ret(Some(<<"Capital not found in the expected format">>))
         ELSE Ret(Some(<<"Capital row not found">>))

IsMapTitle(image) == EndsWith(image, "a Catalunya.svg")
IsEscutTitle(image) == Contains(image, "Coat")
MapCandidates(images) == SelectSeq(images, IsMapTitle)
EscutCandidates(images) == SelectSeq(images, IsEscutTitle)

ComarcaPath(comarca_name) == Replace(comarca_name, " ", "_")
MediaPath(comarca_name, field) == <<"imgs/">> \o ComarcaPath(comarca_name) \o <<"_", field, ".svg">>

Kinds == <<"map", "escut">>
ComarcaNames == { SplitLast(t) : t \in CategoryTitles }
AllPaths == { MediaPath(name, k) : name \in ComarcaNames, k \in {"map", "escut"} }

\* models.py ComarcaData
ComarcaData(comarca, capital) ==
    [comarca |-> comarca, capital |-> capital, map_url |-> None, escut_url |-> None]
MEDIA_FILES == <<"map_url", "escut_url">>

\* getattr(record, field)
GetAttr(record, field) ==
    CASE field = "capital" -> record.capital
      [] field = "map_url" -> record.map_url
      [] field = "escut_url" -> record.escut_url

\* run.py download_svg: the state of the destination afterwards, the error
\* logged, and whether anything propagates to the caller.
download_svg(url, before, outcome) ==
    LET e == IF url = None THEN "MissingSchema" ELSE outcome
    IN  [after  |-> CASE e = "ok" -> "complete"
                      [] e = "WriteError" -> "partial"
                      [] OTHER -> before,
         error  |-> e,
         failed |-> e # "ok",
         log    |-> IF e = "ok" THEN <<>>
                    ELSE << Error(<<"Failed to download ">> \o (IF url = None THEN <<"None">> ELSE url[1])) >>,
         exc    |-> "none"]

\* The escut_url entry marked required.
ValidatedFields_EscutRequired ==
    << [field |-> "capital", required |-> TRUE],
       [field |-> "map_url", required |-> TRUE],
       [field |-> "escut_url", required |-> TRUE] >>

ValidatedFields ==
    << [field |-> "capital", required |-> TRUE],
       [field |-> "map_url", required |-> TRUE],
       [field |-> "escut_url", required |-> FALSE] >>

\* missing = [comarca.comarca for comarca in data if not getattr(comarca, field)]
Missing(records, field) ==
    LET sel == SelectSeq(records, LAMBDA r : Falsy(GetAttr(r, field)))
    IN  [n \in 1..Len(sel) |-> sel[n].comarca]

MissingMsg(field, missing) == <<"Missing ", field, " for comarques: ">> \o Join(missing, ",")

RECURSIVE validate_from_NoStop(_, _, _)
\* The loop without its return False: every field is reported.
validate_from_NoStop(records, j, logged) ==
    IF j > 3 THEN [ok |-> TRUE, log |-> logged]
    ELSE LET field == <<"capital", "map_url", "escut_url">>[j]
             missing == Missing(records, field)
         IN  IF missing # <<>> /\ j < 3
             THEN [ok |-> FALSE,
                   log |-> validate_from_NoStop(records, j + 1,
                               Append(logged, Error(MissingMsg(field, missing)))).log]
             ELSE IF missing # <<>>
             THEN validate_from_NoStop(records, j + 1,
                      Append(logged, Warning(MissingMsg(field, missing))))
             ELSE validate_from_NoStop(records, j + 1, logged)

RECURSIVE validate_from(_, _, _)
validate_from(records, j, logged) ==
    IF j > Len(ValidatedFields) THEN [ok |-> TRUE, log |-> logged]
    ELSE LET f == ValidatedFields[j]
             missing == Missing(records, f.field)
         IN  IF missing # <<>> /\ f.required
             THEN [ok |-> FALSE,
                   log |-> Append(logged, Error(MissingMsg(f.field, missing)))]
             ELSE IF missing # <<>>
             THEN validate_from(records, j + 1,
                      Append(logged, Warning(MissingMsg(f.field, missing))))
             ELSE validate_from(records, j + 1, logged)

\* run.py validate_data
validate_data(records) == validate_from(records, 1, <<>>)

ImgTag(path) == <<"<img src=\"">> \o PathName(path) \o <<"\">">>

\* run.py get_notes: Path(None) raises TypeError.
get_notes(records) ==
    IF \E n \in 1..Len(records) : records[n].escut_url = None \/ records[n].map_url = None
    THEN Raise("TypeError")
    ELSE Ret([n \in 1..Len(records) |->
                << records[n].capital[1], <<>>, <<>>, records[n].comarca, <<>>,
                   ImgTag(records[n].escut_url[1]), <<>>, ImgTag(records[n].map_url[1]) >>])

RECURSIVE collect_imgs(_)
\* [getattr(comarca, field) for comarca in data for field in MEDIA_FILES if getattr(comarca, field)]
collect_imgs(records) ==
    IF records = <<>> THEN <<>>
    ELSE LET r == records[1]
             own == SelectSeq([n \in 1..Len(MEDIA_FILES) |-> GetAttr(r, MEDIA_FILES[n])],
                           LAMBDA o : ~Falsy(o))
         IN  [n \in 1..Len(own) |-> own[n][1]] \o collect_imgs(Tail(records))

----------------------------------------------------------------------------
\* The field set only when the first candidate resolved to a url.
media_record_OnlyIfResolved(record, field, urls, path) ==
    IF Len(urls) = 0 \/ urls[1] = None THEN record
    ELSE IF field = "map" THEN [record EXCEPT !.map_url = Some(path)]
    ELSE [record EXCEPT !.escut_url = Some(path)]

\* get_comarca_data, lines 104-109: the record after the iteration of one kind.
media_record(record, field, urls, path) ==
    IF Len(urls) = 0 THEN record
    ELSE IF field = "map" THEN [record EXCEPT !.map_url = Some(path)]
    ELSE [record EXCEPT !.escut_url = Some(path)]

----------------------------------------------------------------------------
\* src/WikiApi.py, the alternate client.

HttpErrors == {"HTTPError", "ConnectionError", "Timeout", "RequestException"}

\* WikiApi.py catch_http_errors: the wrapper around a decorated method.
catch_http_errors(func_name, result, default_return) ==
    IF result.exc \in HttpErrors
    THEN RetLog(default_return, Error(<<"HTTP exception in ", func_name, ": ", result.exc>>))
    ELSE result

\* WikiApi.py WikimediaAPIHandler.get_image_info: response is the dict that
\* .json() returned, and line 58 reads its attribute text.
WikimediaAPIHandler_get_image_info(image_title, response) ==
    catch_http_errors("get_image_info",
        IF response.status = "error" THEN Raise("ConnectionError")
        ELSE Raise("AttributeError"),
        None)

\* WikiApi.py WikimediaAPIHandler.get_image_titles
WikimediaAPIHandler_get_image_titles(page_title, response) ==
    catch_http_errors("get_image_titles",
        IF response.status = "error" THEN Raise("ConnectionError")
        ELSE IF response.has_images THEN Ret(response.images)
        ELSE RetLog(<<>>, Warning(<<"No images found for ">> \o page_title)),
        <<>>)

----------------------------------------------------------------------------
\* The pipeline of run.py.

NoCall == [active |-> FALSE]
NoOut == [model |-> FALSE, notes |-> <<>>, imgs |-> <<>>, pkg |-> FALSE, apkg |-> "absent"]
NoOp == [name |-> "none"]

Init ==
    /\ pc = "start"
    /\ comarques = <<>>
    /\ i = 0
    /\ data = <<>>
    /\ call = NoCall
    /\ files = [p \in AllPaths |-> "absent"]
    /\ log = <<>>
    /\ valid = "unset"
    /\ out = NoOut
    /\ executed = {}
    /\ exc = "none"
    /\ exit_code = None
    /\ op = NoOp

\* An uncaught exception ends the process with a traceback and status 1.
Crash(e) ==
    /\ pc' = "crashed"
    /\ exc' = e
    /\ exit_code' = Some(1)

\* main, lines 190-194: makedirs, the Wikipedia client, get_comarques_categories.
MainStart ==
    /\ pc = "start"
    /\ \/ /\ \E l \in CategoryLists : comarques' = l
          /\ pc' = "loop"
          /\ UNCHANGED <<exc, exit_code>>
       \/ /\ Crash("ConnectionError")
          /\ UNCHANGED comarques
    /\ UNCHANGED <<i, data, call, files, log, valid, out, executed, op>>

NewCall(title, titles_response, images) ==
    [active |-> TRUE, comarca_name |-> title, titles_response |-> titles_response,
     images |-> images, map_urls |-> <<>>, escut_urls |-> <<>>, resolved |-> <<>>,
     record |-> ComarcaData(title, None), k |-> 0]

\* main, lines 195-198, and get_comarca_data, line 95: the next comarca enters
\* get_comarca_data, which lists the image titles of its page.
GcdImageTitles ==
    /\ pc = "loop"
    /\ i < Len(comarques)
    /\ LET title == SplitLast(comarques[i + 1]) IN
       \E response \in TitleResponses :
          LET r == get_image_titles(title, response) IN
          IF r.exc # "none"
          THEN /\ Crash(r.exc)
               /\ call' = NewCall(title, IF response.status = "error" THEN "error"
                                         ELSE "no_images_key", <<>>)
          ELSE /\ pc' = "gcd_map_urls"
               /\ call' = NewCall(title, "images", r.val)
               /\ UNCHANGED <<exc, exit_code>>
    /\ UNCHANGED <<comarques, i, data, files, log, valid, out, executed, op>>

\* One iteration of a list comprehension [get_image_info(image) for image in
\* candidates]: resolves the next candidate, or leaves the comprehension.
Comprehend(candidates, urls, next_pc) ==
    IF Len(call[urls]) < Len(candidates)
    THEN LET image == candidates[Len(call[urls]) + 1] IN
         \E response \in InfoResponses :
            LET r == get_image_info(image, response)
                seen == [call EXCEPT !.resolved = Append(@, image)]
            IN  IF r.exc # "none"
                THEN /\ Crash(r.exc)
                     /\ call' = seen
                ELSE /\ call' = [seen EXCEPT ![urls] = Append(@, r.val)]
                     /\ UNCHANGED <<pc, exc, exit_code>>
    ELSE /\ pc' = next_pc
         /\ UNCHANGED <<call, exc, exit_code>>

\* get_comarca_data, line 96
GcdMapUrls ==
    /\ pc = "gcd_map_urls"
    /\ Comprehend(MapCandidates(call.images), "map_urls", "gcd_escut_urls")
    /\ UNCHANGED <<comarques, i, data, files, log, valid, out, executed, op>>

\* get_comarca_data, line 97
GcdEscutUrls ==
    /\ pc = "gcd_escut_urls"
    /\ Comprehend(EscutCandidates(call.images), "escut_urls", "gcd_capital")
    /\ UNCHANGED <<comarques, i, data, files, log, valid, out, executed, op>>

\* get_comarca_data, lines 98-102
GcdCapital ==
    /\ pc = "gcd_capital"
    /\ \E page \in Pages :
          LET r == get_comarca_capital_from_html(page) IN
          IF r.exc # "none"
          THEN /\ Crash(r.exc)
               /\ UNCHANGED call
          ELSE /\ call' = [call EXCEPT !.record = ComarcaData(call.comarca_name, r.val), !.k = 1]
               /\ pc' = "gcd_media"
               /\ UNCHANGED <<exc, exit_code>>
    /\ UNCHANGED <<comarques, i, data, files, log, valid, out, executed, op>>

\* get_comarca_data, lines 103-110: one iteration of the loop over the kinds;
\* after the last one the record is returned and main appends it (line 198).
GcdMedia ==
    /\ pc = "gcd_media"
    /\ LET field == Kinds[call.k]
           urls == IF field = "map" THEN call.map_urls ELSE call.escut_urls
           path == MediaPath(call.comarca_name, field)
           record == media_record(call.record, field, urls, path)
       IN  /\ IF Len(urls) = 0
              THEN UNCHANGED files
              ELSE \E outcome \in DownloadOutcomes :
                      files' = [files EXCEPT ![path] = download_svg(urls[1], files[path], outcome).after]
           /\ IF call.k < Len(Kinds)
              THEN /\ call' = [call EXCEPT !.k = @ + 1, !.record = record]
                   /\ UNCHANGED <<pc, data, i>>
              ELSE /\ data' = Append(data, record)
                   /\ i' = i + 1
                   /\ call' = NoCall
                   /\ pc' = "loop"
    /\ UNCHANGED <<comarques, log, valid, out, executed, exc, exit_code, op>>

\* main without the exit: an invalid list goes on to create_model.
MainValidate_NoExit ==
    /\ pc = "loop"
    /\ i = Len(comarques)
    /\ LET r == validate_data(data) IN
       /\ log' = log \o r.log
       /\ valid' = IF r.ok THEN "passed" ELSE "failed"
       /\ pc' = "create_model"
    /\ UNCHANGED <<comarques, i, data, call, files, out, executed, exc, exit_code, op>>

\* main, lines 199-201
MainValidate ==
    /\ pc = "loop"
    /\ i = Len(comarques)
    /\ LET r == validate_data(data) IN
       /\ log' = log \o r.log
       /\ valid' = IF r.ok THEN "passed" ELSE "failed"
       /\ IF r.ok
          THEN /\ pc' = "create_model"
               /\ UNCHANGED exit_code
          ELSE /\ pc' = "exited"
               /\ exit_code' = Some(255)
    /\ UNCHANGED <<comarques, i, data, call, files, out, executed, exc, op>>

\* main, line 202: create_model fails when a template or the style cannot be loaded.
MainCreateModel ==
    /\ pc = "create_model"
    /\ executed' = executed \cup {"create_model"}
    /\ \/ /\ out' = [out EXCEPT !.model = TRUE]
          /\ pc' = "get_notes"
          /\ UNCHANGED <<exc, exit_code>>
       \/ /\ Crash("ValueError")
          /\ UNCHANGED out
    /\ UNCHANGED <<comarques, i, data, call, files, log, valid, op>>

\* main, line 203
MainGetNotes ==
    /\ pc = "get_notes"
    /\ executed' = executed \cup {"get_notes"}
    /\ LET r == get_notes(data) IN
       IF r.exc # "none"
       THEN /\ Crash(r.exc)
            /\ UNCHANGED out
       ELSE /\ out' = [out EXCEPT !.notes = r.val]
            /\ pc' = "create_deck"
            /\ UNCHANGED <<exc, exit_code>>
    /\ UNCHANGED <<comarques, i, data, call, files, log, valid, op>>

\* main, lines 204-205
MainCreateDeck ==
    /\ pc = "create_deck"
    /\ executed' = executed \cup {"create_deck"}
    /\ out' = [out EXCEPT !.imgs = collect_imgs(data), !.pkg = TRUE]
    /\ pc' = "write_to_file"
    /\ UNCHANGED <<comarques, i, data, call, files, log, valid, exc, exit_code, op>>

\* main, lines 206-208: the package library reads every media file; what it
\* does with a missing one is outside this program (it fails, or embeds a
\* dead reference).
MainWriteToFile ==
    /\ pc = "write_to_file"
    /\ executed' = executed \cup {"write_to_file"}
    /\ \/ /\ out' = [out EXCEPT !.apkg = "written"]
          /\ pc' = "done"
          /\ exit_code' = Some(0)
          /\ UNCHANGED exc
       \/ /\ \E n \in 1..Len(out.imgs) : files[out.imgs[n]] = "absent"
          /\ Crash("FileNotFoundError")
          /\ UNCHANGED out
    /\ UNCHANGED <<comarques, i, data, call, files, log, valid, op>>

Next ==
    \/ MainStart
    \/ GcdImageTitles
    \/ GcdMapUrls
    \/ GcdEscutUrls
    \/ GcdCapital
    \/ GcdMedia
    \/ MainValidate
    \/ MainCreateModel
    \/ MainGetNotes
    \/ MainCreateDeck
    \/ MainWriteToFile

Spec == Init /\ [][Next]_vars

----------------------------------------------------------------------------
\* The operations called directly, each on inputs drawn from bounded sets.

Capitals == { None, Some(<<>>), Some(<<"Manresa">>), Some(<<"Capital row not found">>) }
Records ==
    { [comarca |-> c, capital |-> cap, map_url |-> IF m THEN Some(MediaPath(c, "map")) ELSE None,
       escut_url |-> IF e THEN Some(MediaPath(c, "escut")) ELSE None]
      : c \in ComarcaNames, cap \in Capitals, m \in BOOLEAN, e \in BOOLEAN }
RecordLists == UNION { [1..n -> Records] : n \in 0..MaxComarques }

OpValidateData ==
    /\ pc = "start"
    /\ \E records \in RecordLists :
          LET r == validate_data(records) IN
          op' = [name |-> "validate_data", records |-> records, ok |-> r.ok, log |-> r.log]
    /\ pc' = "op_done"
    /\ UNCHANGED <<comarques, i, data, call, files, log, valid, out, executed, exc, exit_code>>

Urls == {None} \cup { Some(UrlOf(QueryTitle(PageImages[n]))) : n \in 1..Len(PageImages) }

\* download_svg is called again and again on the same directory.
OpDownloadSvg ==
    /\ pc \in {"start", "op_download"}
    /\ \E url \in Urls, path \in AllPaths, outcome \in DownloadOutcomes :
          LET d == download_svg(url, files[path], outcome) IN
          /\ files' = [files EXCEPT ![path] = d.after]
          /\ op' = [name |-> "download_svg", url |-> url, path |-> path,
                    before |-> files[path], error |-> d.error, failed |-> d.failed,
                    log |-> d.log, exc |-> d.exc]
    /\ pc' = "op_download"
    /\ UNCHANGED <<comarques, i, data, call, log, valid, out, executed, exc, exit_code>>

\* Both clients list the image titles of the same page from the same response.
OpGetImageTitles ==
    /\ pc = "start"
    /\ \E name \in ComarcaNames, response \in TitleResponses :
          op' = [name |-> "get_image_titles", page_title |-> name, response |-> response,
                 primary |-> get_image_titles(name, response),
                 alternate |-> WikimediaAPIHandler_get_image_titles(name, response)]
    /\ pc' = "op_done"
    /\ UNCHANGED <<comarques, i, data, call, files, log, valid, out, executed, exc, exit_code>>

\* Both clients resolve the same image title from the same response.
OpGetImageInfo ==
    /\ pc = "start"
    /\ \E n \in 1..Len(PageImages), response \in InfoResponses :
          op' = [name |-> "get_image_info", image_title |-> PageImages[n],
                 query |-> QueryTitle(PageImages[n]), response |-> response,
                 primary |-> get_image_info(PageImages[n], response),
                 alternate |-> WikimediaAPIHandler_get_image_info(PageImages[n], response)]
    /\ pc' = "op_done"
    /\ UNCHANGED <<comarques, i, data, call, files, log, valid, out, executed, exc, exit_code>>

OpNext ==
    \/ OpValidateData
    \/ OpDownloadSvg
    \/ OpGetImageTitles
    \/ OpGetImageInfo

SpecOps == Init /\ [][OpNext]_vars

----------------------------------------------------------------------------
\* Properties.

Indices(list) == 1..Len(list)
RequiredGap(records) ==
    \E n \in Indices(records) : Falsy(records[n].capital) \/ Falsy(records[n].map_url)

\* C1: once validate_data has reported failure (some record lacks capital or
\* map_url) the run has ended with a non-zero exit status and none of
\* create_model, get_notes, create_deck, write_to_file has run; whatever of
\* them runs, and comarques.apkg when written, comes after validation passed.
C1_InvalidAbortsBeforePackaging ==
    /\ valid = "failed" =>
          /\ pc = "exited"
          /\ exit_code # None /\ exit_code # Some(0)
          /\ executed = {}
          /\ out = NoOut
    /\ (valid # "unset" /\ RequiredGap(data)) => valid = "failed"
    /\ (executed # {} \/ out.apkg = "written") => (valid = "passed" /\ ~RequiredGap(data))

\* A run that validated a list holding a record without map_url and exited.
C1_Witness ==
    /\ pc = "exited"
    /\ valid = "failed"
    /\ \E n \in Indices(data) : data[n].map_url = None

\* C2: when every record has capital and map_url but some record has no
\* escut_url, validation passes with warnings only and get_notes builds one
\* note per record without raising.
C2_MissingEscutStillPackaged ==
    ( /\ valid = "passed"
      /\ \E n \in Indices(data) : data[n].escut_url = None
      /\ "get_notes" \in executed
      /\ pc # "get_notes" )
    => /\ exc = "none"
       /\ Len(out.notes) = Len(data)

RECURSIVE NamesMissing(_, _)
\* The comarques of the records whose field is None or empty, in input order.
NamesMissing(records, field) ==
    IF records = <<>> THEN <<>>
    ELSE LET r == records[1]
             v == IF field = "capital" THEN r.capital
                  ELSE IF field = "map_url" THEN r.map_url ELSE r.escut_url
             rest == NamesMissing(Tail(records), field)
         IN  IF v = <<>> \/ v = << <<>> >> THEN <<r.comarca>> \o rest ELSE rest

Report(level, field, names) ==
    [level |-> level, msg |-> <<"Missing ", field, " for comarques: ">> \o Join(names, ",")]

\* C3: validate_data fails exactly when some record lacks capital or map_url;
\* records lacking only escut_url give success and one warning naming exactly
\* them; a failure names exactly the comarques lacking the field it reports,
\* in input order.
C3_ValidateVerdictAndNames ==
    op.name = "validate_data" =>
       LET rs == op.records
           gap(f) == NamesMissing(rs, f)
       IN  /\ op.ok <=> (gap("capital") = <<>> /\ gap("map_url") = <<>>)
           /\ op.ok => op.log = IF gap("escut_url") = <<>> THEN <<>>
                                ELSE << Report("WARNING", "escut_url", gap("escut_url")) >>
           /\ ~op.ok => \E f \in {"capital", "map_url"} :
                           /\ gap(f) # <<>>
                           /\ op.log[Len(op.log)] = Report("ERROR", f, gap(f))

\* Two records, the second without capital and the first without escut_url.
C3_Witness ==
    /\ op.name = "validate_data"
    /\ ~op.ok
    /\ Len(op.records) = 2
    /\ ~Falsy(op.records[1].capital) /\ Falsy(op.records[2].capital)
    /\ op.records[1].escut_url = None

\* C4: when the comarca names of a run are pairwise distinct, the media list
\* given to create_deck is exactly the set of the present map_url and
\* escut_url paths, without a duplicate: no two comarca/kind pairs share a path.
C4_MediaListHasNoDuplicate ==
    ( /\ out.pkg
      /\ \A a, b \in Indices(data) : a # b => data[a].comarca # data[b].comarca )
    => /\ \A a, b \in Indices(out.imgs) : a # b => out.imgs[a] # out.imgs[b]
       /\ { out.imgs[n] : n \in Indices(out.imgs) }
             = { data[n].map_url[1] : n \in { m \in Indices(data) : data[m].map_url # None } }
               \cup { data[n].escut_url[1] : n \in { m \in Indices(data) : data[m].escut_url # None } }

\* C5: a download_svg call that fails with the destination absent logs an
\* error, raises nothing and leaves the destination absent.
C5_FailedDownloadLeavesNoFile ==
    (op.name = "download_svg" /\ op.failed /\ op.before = "absent")
    => /\ op.exc = "none"
       /\ \E n \in Indices(op.log) : op.log[n].level = "ERROR"
       /\ files[op.path] = "absent"

\* C6: the record get_comarca_data returns has <kind>_url set, to
\* imgs/<slug>_<kind>.svg, exactly when the page lists a candidate title of
\* that kind, whatever the candidate resolved to and whatever the download did.
C6_FieldSetIffCandidate ==
    [][ data' # data =>
          LET r == data'[Len(data')]
              slug == Replace(call.comarca_name, " ", "_")
              maps == { n \in Indices(call.images) : EndsWith(call.images[n], "a Catalunya.svg") }
              escuts == { n \in Indices(call.images) : Contains(call.images[n], "Coat") }
          IN  /\ r.comarca = call.comarca_name
              /\ r.map_url = IF maps # {} THEN << <<"imgs/">> \o slug \o <<"_", "map", ".svg">> >>
                             ELSE <<>>
              /\ r.escut_url = IF escuts # {} THEN << <<"imgs/">> \o slug \o <<"_", "escut", ".svg">> >>
                               ELSE <<>>
      ]_vars

\* A validated list is packaged while the file at a record's map_url was never written.
C6_Witness ==
    /\ valid = "passed"
    /\ out.pkg
    /\ \E n \in Indices(data) : data[n].map_url # None /\ files[data[n].map_url[1]] = "absent"

\* C7: on a failing list validate_data emits exactly one report, an error for
\* the first of capital, map_url that has gaps, and nothing for a later field.
C7_OnlyFirstViolationReported ==
    (op.name = "validate_data" /\ ~op.ok) =>
       LET first == IF \E n \in Indices(op.records) : Falsy(op.records[n].capital)
                    THEN "capital" ELSE "map_url"
       IN  /\ Len(op.log) = 1
           /\ op.log[1].level = "ERROR"
           /\ op.log[1].msg[2] = first

\* capital, map_url and escut_url all have gaps in one list.
C7_Witness ==
    /\ op.name = "validate_data"
    /\ ~op.ok
    /\ \E a, b, c \in Indices(op.records) :
          /\ Falsy(op.records[a].capital)
          /\ ~Falsy(op.records[b].capital) /\ op.records[b].map_url = None
          /\ op.records[c].escut_url = None

\* C8: for a response whose page entry has no images key, both clients'
\* get_image_titles log a warning and return the empty list without raising.
C8_NoImagesKeyGivesEmptyList ==
    (op.name = "get_image_titles" /\ op.response.status = "ok" /\ ~op.response.has_images)
    => \A r \in {op.primary, op.alternate} :
          /\ r.exc = "none"
          /\ r.val = <<>>
          /\ \E n \in Indices(r.log) : r.log[n].level = "WARNING"

\* C9: on a response that was received, the alternate get_image_info returns
\* what the primary returns: the url when the entry has imageinfo, else None.
C9_ClientsAgreeOnImageInfo ==
    (op.name = "get_image_info" /\ op.response.status = "ok")
    => /\ op.alternate.exc = op.primary.exc
       /\ op.alternate.val = op.primary.val

\* C10: get_comarca_data sends a URL-resolution request only for the first
\* candidate of each kind, so no later candidate can make it raise.
C10_OnlyFirstCandidateResolved ==
    call.active =>
       \A n \in Indices(call.resolved) :
          \/ /\ MapCandidates(call.images) # <<>>
             /\ call.resolved[n] = MapCandidates(call.images)[1]
          \/ /\ EscutCandidates(call.images) # <<>>
             /\ call.resolved[n] = EscutCandidates(call.images)[1]
====
